---- MODULE Spec2Model ----
(***************************************************************************)
(* Model of the Rigol DS1000E waveform parser (wfm/src/parser.rs and       *)
(* wfm/src/parser/ds1000e.rs).                                             *)
(*                                                                         *)
(* A buffer is a sequence of bytes; the byte at the 0-based offset o of    *)
(* the source is input[o + 1].  A u32 is kept at its full width as two     *)
(* 16-bit limbs [hi, lo] (value hi * 65536 + lo).  Signed integers and     *)
(* floats are only carried through by the parser and are kept as the       *)
(* little-endian byte pattern that was read; the float-valued fields the   *)
(* channel header derives (volt_per_division, volt_scale, volt_offset)     *)
(* are not represented.                                                    *)
(***************************************************************************)
EXTENDS Integers, Sequences, FiniteSets, TLC

VARIABLES call, overflow_checks, input, pc, header, rest, outcome, conv

vars == <<call, overflow_checks, input, pc, header, rest, outcome, conv>>

(***************************************************************************)
(* Bounds of the explored inputs.                                          *)
(***************************************************************************)
MaxLen == 301
MaxRollStop == 1
MaxRawCh1 == 8
MaxRawCh2 == 2

(***************************************************************************)
(* u32 arithmetic                                                          *)
(***************************************************************************)
Limb == 65536

U32(hi, lo) == [hi |-> hi, lo |-> lo]

U32Lit(n) == U32(0, n)

U32Lt(a, b) == a.hi < b.hi \/ (a.hi = b.hi /\ a.lo < b.lo)

\* a - b on u32: the wrapped difference and whether it overflowed
u32_sub(a, b) ==
    LET borrow == IF a.lo < b.lo THEN 1 ELSE 0
    IN  [overflow |-> U32Lt(a, b),
         val |-> U32((a.hi - b.hi - borrow + Limb) % Limb,
                     (a.lo - b.lo + Limb) % Limb)]

\* a + b on u32: the wrapped sum and whether it overflowed
u32_add(a, b) ==
    LET carry == IF a.lo + b.lo >= Limb THEN 1 ELSE 0
    IN  [overflow |-> a.hi + b.hi + carry >= Limb,
         val |-> U32((a.hi + b.hi + carry) % Limb, (a.lo + b.lo) % Limb)]

(***************************************************************************)
(* Enum families and the checked conversion from a byte (parser.rs)        *)
(***************************************************************************)
EnumVariants ==
    [Bandwidth   |-> {[name |-> "NoLimit", ord |-> 0], [name |-> "Mhz20", ord |-> 1],
                      [name |-> "Mhz100", ord |-> 2], [name |-> "Mhz200", ord |-> 3],
                      [name |-> "Mhz250", ord |-> 4]},
     Coupling    |-> {[name |-> "Dc", ord |-> 0], [name |-> "Ac", ord |-> 1],
                      [name |-> "Gnd", ord |-> 2]},
     Filter      |-> {[name |-> "LowPass", ord |-> 0], [name |-> "HighPass", ord |-> 1],
                      [name |-> "BandPass", ord |-> 2], [name |-> "BandReject", ord |-> 3]},
     Source      |-> {[name |-> "Ch1", ord |-> 0], [name |-> "Ch2", ord |-> 1],
                      [name |-> "Ext", ord |-> 2], [name |-> "Ext5", ord |-> 3],
                      [name |-> "AcLine", ord |-> 4], [name |-> "DigCh", ord |-> 5]},
     TriggerMode |-> {[name |-> "Edge", ord |-> 0], [name |-> "Pulse", ord |-> 1],
                      [name |-> "Slope", ord |-> 2], [name |-> "Video", ord |-> 3],
                      [name |-> "Alt", ord |-> 4], [name |-> "Pattern", ord |-> 5],
                      [name |-> "Duration", ord |-> 6]},
     Unit        |-> {[name |-> "W", ord |-> 0], [name |-> "A", ord |-> 1],
                      [name |-> "V", ord |-> 2], [name |-> "U", ord |-> 3]}]

EnumFamilies == DOMAIN EnumVariants

\* the $max literal given for each type in the try_from_num! invocation
EnumMax ==
    [Bandwidth |-> 4, Coupling |-> 2, Filter |-> 3, Source |-> 5,
     TriggerMode |-> 6, Unit |-> 3]

\* core::mem::transmute(raw): the variant whose discriminant is raw; a byte
\* that is no discriminant of the type has no defined result
Undefined == "undefined"

transmute(ty, raw) ==
    LET vs == {v \in EnumVariants[ty] : v.ord = raw}
    IN  IF vs = {} THEN Undefined ELSE (CHOOSE v \in vs : TRUE).name

\* the conversion with the bound one too high
try_from_max_plus_one(ty, raw) ==
    IF raw <= EnumMax[ty] + 1
        THEN [ok |-> TRUE, val |-> transmute(ty, raw)]
        ELSE [ok |-> FALSE, val |-> ""]

try_from(ty, raw) ==
    IF raw <= EnumMax[ty]
        THEN [ok |-> TRUE, val |-> transmute(ty, raw)]
        ELSE [ok |-> FALSE, val |-> ""]

(***************************************************************************)
(* nom combinators on a buffer i read from the 0-based offset pos.  A      *)
(* parser yields Ok (new offset and value), Err::Incomplete(Needed) or     *)
(* Err::Error((input at offset at, ErrorKind code)); a closure that        *)
(* panics yields Panic.                                                    *)
(***************************************************************************)
NoErr == [kind |-> "none", code |-> "", at |-> 0, needed |-> U32Lit(0)]

Ok(pos, val) == [res |-> "Ok", pos |-> pos, val |-> val, err |-> NoErr]

\* Needed::Size(n), n a u32
Incomplete(n) ==
    [res |-> "Err", pos |-> 0, val |-> << >>,
     err |-> [kind |-> "Incomplete", code |-> "", at |-> 0, needed |-> n]]

Error(at, code) ==
    [res |-> "Err", pos |-> 0, val |-> << >>,
     err |-> [kind |-> "Error", code |-> code, at |-> at, needed |-> U32Lit(0)]]

Panic(msg) ==
    [res |-> "Panic", pos |-> 0, val |-> << >>,
     err |-> [kind |-> "Panic", code |-> msg, at |-> 0, needed |-> U32Lit(0)]]

Remaining(i, pos) == Len(i) - pos

\* take!(n) with a small literal count
take(i, pos, n) ==
    IF Remaining(i, pos) >= n
        THEN Ok(pos + n, SubSeq(i, pos + 1, pos + n))
        ELSE Incomplete(U32Lit(n))

\* take!(n) with a u32 count widened to usize
take_u32(i, pos, n) ==
    IF n.hi = 0 /\ Remaining(i, pos) >= n.lo
        THEN Ok(pos + n.lo, SubSeq(i, pos + 1, pos + n.lo))
        ELSE Incomplete(n)

\* tag!(t): a differing byte in the common prefix is an Error, a matching
\* but short input is Incomplete
tag(i, pos, t) ==
    LET m == IF Remaining(i, pos) < Len(t) THEN Remaining(i, pos) ELSE Len(t)
    IN  IF \E k \in 1..m : i[pos + k] # t[k] THEN Error(pos, "Tag")
        ELSE IF Remaining(i, pos) >= Len(t) THEN Ok(pos + Len(t), t)
        ELSE Incomplete(U32Lit(Len(t)))

u8(i, pos) ==
    IF Remaining(i, pos) >= 1 THEN Ok(pos + 1, i[pos + 1]) ELSE Incomplete(U32Lit(1))

le_u16(i, pos) ==
    IF Remaining(i, pos) >= 2
        THEN Ok(pos + 2, i[pos + 1] + 256 * i[pos + 2])
        ELSE Incomplete(U32Lit(2))

le_u32(i, pos) ==
    IF Remaining(i, pos) >= 4
        THEN Ok(pos + 4, U32(i[pos + 3] + 256 * i[pos + 4],
                             i[pos + 1] + 256 * i[pos + 2]))
        ELSE Incomplete(U32Lit(4))

\* le_i16, le_i32, le_i64, le_f32: n bytes kept as their bit pattern
le_bits(i, pos, n) ==
    IF Remaining(i, pos) >= n
        THEN Ok(pos + n, SubSeq(i, pos + 1, pos + n))
        ELSE Incomplete(U32Lit(n))

Magic == <<165, 165, 0, 0>>

P(p, n) == [p |-> p, n |-> n]

(***************************************************************************)
(* Field layouts, in the order of the tuple!(...) of each parser           *)
(***************************************************************************)
ChannelHeaderLayout ==
    << P("u16", 2),   \* unknown
       P("i32", 4),   \* scale display
       P("i16", 2),   \* shift display
       P("u8", 1),    \* unknown
       P("u8", 1),    \* unknown
       P("f32", 4),   \* probe value
       P("u8", 1),    \* invert display
       P("u8", 1),    \* enabled
       P("u8", 1),    \* inverted
       P("u8", 1),    \* unknown
       P("i32", 4),   \* scale measured
       P("i16", 2) >> \* shift measured

TimeHeaderLayout ==
    << P("i64", 8),   \* scale display
       P("i64", 8),   \* offset display
       P("f32", 4),   \* sample rate Hz
       P("i64", 8),   \* scale measured
       P("i64", 8) >> \* offset measured

TriggerHeaderLayout ==
    << P("u8", 1),    \* mode
       P("u8", 1),    \* source
       P("u8", 1),    \* coupling
       P("u8", 1),    \* sweep
       P("take", 1),  \* padding
       P("f32", 4),   \* sens
       P("f32", 4),   \* holdoff
       P("f32", 4),   \* level
       P("u8", 1),    \* direct
       P("u8", 1),    \* pulse type
       P("take", 2),  \* padding
       P("f32", 4),   \* pulse width
       P("u8", 1),    \* slope type
       P("take", 3),  \* padding
       P("f32", 4),   \* lower
       P("f32", 4),   \* slope width
       P("u8", 1),    \* video pol
       P("u8", 1),    \* video sync
       P("u8", 1) >>  \* video std

LogicAnalyzerHeaderLayout ==
    << P("u8", 1),    \* enabled
       P("u8", 1),    \* active channel
       P("u16", 2),   \* enabled channels
       P("take", 16), \* position
       P("u8", 1),    \* group 8..15 size
       P("u8", 1) >>  \* group 0..7 size

WaveformHeaderLayout ==
    << P("tag", 4),                   \* magic
       P("take", 12),                 \* padding
       P("u8", 1),                    \* ADC mode
       P("take", 3),                  \* padding
       P("u32", 4),                   \* roll_stop
       P("take", 4),                  \* unused
       P("u32", 4),                   \* ch1 points
       P("u8", 1),                    \* active channel
       P("take", 1),                  \* padding
       P("channel_header", 0),        \* channel 1 header
       P("channel_header", 0),        \* channel 2 header
       P("u8", 1),                    \* time offset
       P("take", 1),                  \* padding
       P("time_header", 0),           \* time header
       P("logic_analyzer_header", 0), \* logic analyzer header
       P("u8", 1),                    \* trigger mode
       P("trigger_header", 0),        \* trigger 1 header
       P("trigger_header", 0),        \* trigger 2 header
       P("take", 6),                  \* padding
       P("u32", 4),                   \* ch2 points
       P("time_header", 0),           \* time 2 header
       P("f32", 4) >>                 \* logic sample rate

\* one primitive parser of a layout
Field(item, i, pos) ==
    CASE item.p = "tag"  -> tag(i, pos, Magic)
      [] item.p = "take" -> take(i, pos, item.n)
      [] item.p = "u8"   -> u8(i, pos)
      [] item.p = "u16"  -> le_u16(i, pos)
      [] item.p = "u32"  -> le_u32(i, pos)
      [] item.p \in {"i16", "i32", "i64", "f32"} -> le_bits(i, pos, item.n)

\* tuple!(...): the parsers of a layout in order, each from where the
\* previous one stopped; the first failure is the result.  fields is the
\* tuple! of a layout of primitive parsers, tuple that of waveform_header.
tuple_cons(r, t) ==
    IF t.res # "Ok" THEN t ELSE Ok(t.pos, <<r.val>> \o t.val)

RECURSIVE fields(_, _, _)
RECURSIVE fields_after(_, _, _)

fields_after(r, layout, i) ==
    IF r.res # "Ok" THEN r ELSE tuple_cons(r, fields(layout, i, r.pos))

fields(layout, i, pos) ==
    IF layout = << >> THEN Ok(pos, << >>)
    ELSE fields_after(Field(Head(layout), i, pos), Tail(layout), i)

\* the closures of map!(tuple!(...), closure), given the result t of the
\* tuple! and, for map_opt!, the offset the parser started at
channel_header_map(t) ==
    IF t.res # "Ok" THEN t
    ELSE Ok(t.pos, [scale_display  |-> t.val[2],
                    shift_display  |-> t.val[3],
                    probe_value    |-> t.val[6],
                    invert_display |-> t.val[7],
                    scale_measured |-> t.val[11],
                    shift_measured |-> t.val[12],
                    inverted       |-> t.val[9] # 0,
                    enabled        |-> t.val[8] # 0,
                    unit           |-> "V"])

channel_header(i, pos) ==
    channel_header_map(fields(ChannelHeaderLayout, i, pos))

time_header_map(t) ==
    IF t.res # "Ok" THEN t
    ELSE Ok(t.pos, [scale_display   |-> t.val[1],
                    offset_display  |-> t.val[2],
                    sample_rate_hz  |-> t.val[3],
                    scale_measured  |-> t.val[4],
                    offset_measured |-> t.val[5]])

time_header(i, pos) ==
    time_header_map(fields(TimeHeaderLayout, i, pos))

trigger_header_map_opt(t, pos) ==
    IF t.res # "Ok" THEN t
    ELSE IF \/ ~try_from("TriggerMode", t.val[1]).ok
            \/ ~try_from("Source", t.val[2]).ok
            \/ ~try_from("Coupling", t.val[3]).ok
        THEN Error(pos, "MapOpt")
    ELSE Ok(t.pos, [mode        |-> try_from("TriggerMode", t.val[1]).val,
                    source      |-> try_from("Source", t.val[2]).val,
                    coupling    |-> try_from("Coupling", t.val[3]).val,
                    sweep       |-> t.val[4],
                    sens        |-> t.val[6],
                    holdoff     |-> t.val[7],
                    level       |-> t.val[8],
                    direct      |-> t.val[9] # 0,
                    pulse_type  |-> t.val[10],
                    pulse_width |-> t.val[12],
                    slope_type  |-> t.val[13],
                    lower       |-> t.val[15],
                    slope_width |-> t.val[16],
                    video_pol   |-> t.val[17],
                    video_sync  |-> t.val[18],
                    video_std   |-> t.val[19]])

trigger_header(i, pos) ==
    trigger_header_map_opt(fields(TriggerHeaderLayout, i, pos), pos)

logic_analyzer_header_map(t) ==
    IF t.res # "Ok" THEN t
    ELSE Ok(t.pos, [enabled          |-> t.val[1] % 2 # 0,
                    active_channel   |-> t.val[2],
                    enabled_channels |-> t.val[3],
                    position         |-> t.val[4],
                    group8to15size   |-> t.val[5],
                    group0to7size    |-> t.val[6]])

logic_analyzer_header(i, pos) ==
    logic_analyzer_header_map(fields(LogicAnalyzerHeaderLayout, i, pos))

ParseItem(item, i, pos) ==
    CASE item.p = "channel_header" -> channel_header(i, pos)
      [] item.p = "time_header"    -> time_header(i, pos)
      [] item.p = "trigger_header" -> trigger_header(i, pos)
      [] item.p = "logic_analyzer_header" -> logic_analyzer_header(i, pos)
      [] OTHER -> Field(item, i, pos)

RECURSIVE tuple(_, _, _)
RECURSIVE tuple_after(_, _, _)

tuple_after(r, layout, i) ==
    IF r.res # "Ok" THEN r ELSE tuple_cons(r, tuple(layout, i, r.pos))

tuple(layout, i, pos) ==
    IF layout = << >> THEN Ok(pos, << >>)
    ELSE tuple_after(ParseItem(Head(layout), i, pos), Tail(layout), i)

(***************************************************************************)
(* waveform_header: the fixed layout, then the closure of map_opt!         *)
(***************************************************************************)
\* the inference without the test of ch1.enabled
ch2_points_of_any_ch1(ch1_enabled, raw_ch2_points, ch1_points) ==
    IF raw_ch2_points = U32Lit(0)
        THEN ch1_points
        ELSE raw_ch2_points

\* Use ch1_points when ch2_points is not written
ch2_points_of(ch1_enabled, raw_ch2_points, ch1_points) ==
    IF ch1_enabled /\ raw_ch2_points = U32Lit(0)
        THEN ch1_points
        ELSE raw_ch2_points

\* In rolling mode, change the number of valid samples and skip invalid
\* points: ch1_points and ch1_skip, each with whether its u32 arithmetic
\* overflowed
rolling_points(roll_stop, raw_ch1_points) ==
    IF roll_stop = U32Lit(0)
        THEN u32_sub(raw_ch1_points, U32Lit(4))
        ELSE [overflow |-> \/ u32_sub(raw_ch1_points, roll_stop).overflow
                           \/ u32_sub(u32_sub(raw_ch1_points, roll_stop).val,
                                      U32Lit(6)).overflow,
              val |-> u32_sub(u32_sub(raw_ch1_points, roll_stop).val,
                              U32Lit(6)).val]

rolling_skip(roll_stop) ==
    IF roll_stop = U32Lit(0)
        THEN [overflow |-> FALSE, val |-> U32Lit(0)]
        ELSE u32_add(roll_stop, U32Lit(2))

\* the rest of the closure, given the point counts: the unused valid-sample
\* lengths, the trigger mode and the header.  An overflowing u32 operation
\* panics when the build checks overflow (oc) and wraps otherwise; None is
\* the MapOpt error of the enclosing map_opt!.
waveform_header_build(v, oc, ch1_points, ch1_skip, ch2_points) ==
    IF oc /\ ch1_points.overflow
        THEN [kind |-> "Panic", val |-> "attempt to subtract with overflow"]
    ELSE IF oc /\ ch1_skip.overflow
        THEN [kind |-> "Panic", val |-> "attempt to add with overflow"]
    ELSE IF oc /\ (\/ u32_sub(ch1_points.val, v[5]).overflow
                   \/ u32_sub(ch2_points, v[5]).overflow)
        THEN [kind |-> "Panic", val |-> "attempt to subtract with overflow"]
    ELSE IF ~try_from("TriggerMode", v[16]).ok
        THEN [kind |-> "None", val |-> ""]
    ELSE [kind |-> "Some",
          val  |-> [adc_mode       |-> v[3],
                    roll_stop      |-> v[5],
                    active_channel |-> v[8],
                    ch1            |-> v[10],
                    ch2            |-> v[11],
                    time           |-> v[14],
                    time2          |-> v[21],
                    trigger1       |-> v[17],
                    trigger2       |-> v[18],
                    logic          |-> v[15],
                    ch1_points     |-> ch1_points.val,
                    ch1_skip       |-> ch1_skip.val,
                    ch2_points     |-> ch2_points]]

\* the closure on the values v of the tuple!: v[5] is roll_stop, v[7] the
\* ch1 points, v[10] the channel 1 header and v[20] the ch2 points read
waveform_header_closure(v, oc) ==
    waveform_header_build(
        v, oc,
        rolling_points(v[5], v[7]),
        rolling_skip(v[5]),
        ch2_points_of(v[10].enabled, v[20], rolling_points(v[5], v[7]).val))

waveform_header_result(t, c) ==
    IF c.kind = "Panic" THEN Panic(c.val)
    ELSE IF c.kind = "None" THEN Error(0, "MapOpt")
    ELSE Ok(t.pos, c.val)

waveform_header_map_opt(t, oc) ==
    IF t.res # "Ok" THEN t
    ELSE waveform_header_result(t, waveform_header_closure(t.val, oc))

waveform_header(i, oc) ==
    waveform_header_map_opt(tuple(WaveformHeaderLayout, i, 0), oc)

(***************************************************************************)
(* raw_data: the datasets of the enabled channels                          *)
(***************************************************************************)
\* the dataset without the roll stop padding
analog_dataset_no_padding(i, pos, enabled, points, skip) ==
    LET smps == take_u32(i, pos, points)
        sent == take(i, smps.pos, 4)
    IN  IF ~enabled THEN Ok(pos, [some |-> FALSE, smps |-> << >>])
        ELSE IF smps.res # "Ok" THEN smps
        ELSE IF sent.res # "Ok" THEN sent
        ELSE Ok(sent.pos, [some |-> TRUE, smps |-> smps.val])

\* cond!(enabled, tuple!(take!(points), take!(skip), take!(4))); the value
\* is the samples, None when the channel is disabled
analog_dataset(i, pos, enabled, points, skip) ==
    LET smps == take_u32(i, pos, points)
        pad  == take_u32(i, smps.pos, skip)
        sent == take(i, pad.pos, 4)
    IN  IF ~enabled THEN Ok(pos, [some |-> FALSE, smps |-> << >>])
        ELSE IF smps.res # "Ok" THEN smps
        ELSE IF pad.res # "Ok" THEN pad
        ELSE IF sent.res # "Ok" THEN sent
        ELSE Ok(sent.pos, [some |-> TRUE, smps |-> smps.val])

\* cond!(enabled, count!(u16, n))
logic_dataset(i, pos, enabled, n) ==
    IF ~enabled THEN Ok(pos, [some |-> FALSE, smps |-> << >>])
    ELSE IF n.hi = 0 /\ Remaining(i, pos) >= 2 * n.lo
        THEN Ok(pos + 2 * n.lo,
                [some |-> TRUE,
                 smps |-> [k \in 1..n.lo |-> le_u16(i, pos + 2 * (k - 1)).val]])
    ELSE Incomplete(U32Lit(2))

raw_data(i, h) ==
    LET ch1   == analog_dataset(i, 0, h.ch1.enabled, h.ch1_points, h.ch1_skip)
        ch2   == analog_dataset(i, ch1.pos, h.ch2.enabled, h.ch2_points, h.ch1_skip)
        logic == logic_dataset(i, ch2.pos, h.logic.enabled, h.ch1_points)
    IN  IF ch1.res # "Ok" THEN ch1
        ELSE IF ch2.res # "Ok" THEN ch2
        ELSE IF logic.res # "Ok" THEN logic
        ELSE Ok(logic.pos,
                [ch1   |-> IF ch1.val.some THEN ch1.val.smps ELSE << >>,
                 ch2   |-> IF ch2.val.some THEN ch2.val.smps ELSE << >>,
                 logic |-> IF logic.val.some THEN logic.val.smps ELSE << >>])

\* the offset parse slices the input at for raw_data
RawDataOffset == 276

(***************************************************************************)
(* Input buffers.  A buffer is described by its length and by the bytes    *)
(* of the fields the parser acts on, at the offsets at which the layout    *)
(* reads them; every other header byte is 0 and the byte at an offset o    *)
(* past the header is o % 256, so that samples taken at different offsets  *)
(* differ.                                                                 *)
(***************************************************************************)
LE4(n) == <<n % 256, (n \div 256) % 256, 0, 0>>

AllOnes == <<255, 255, 255, 255>>

ByteAt(p, o) ==
    CASE o \in 0..3     -> p.magic[o + 1]
      [] o \in 20..23   -> p.roll_stop[o - 19]
      [] o \in 28..31   -> p.raw_ch1[o - 27]
      [] o = 49         -> p.ch1_en
      [] o = 73         -> p.ch2_en
      [] o = 120        -> p.la_en
      [] o = 142        -> p.tmode
      [] o \in 143..145 -> p.t1[o - 142]
      [] o \in 183..185 -> p.t2[o - 182]
      [] o \in 229..232 -> p.raw_ch2[o - 228]
      [] o >= RawDataOffset -> o % 256
      [] OTHER          -> 0

MkInput(p) == [k \in 1..p.len |-> ByteAt(p, k - 1)]

\* every length
TruncInputs ==
    [len : 0..MaxLen,
     magic : {Magic},
     roll_stop : {LE4(0)}, raw_ch1 : {LE4(4)}, raw_ch2 : {LE4(0)},
     ch1_en : {2}, ch2_en : {0}, la_en : {0},
     tmode : {0}, t1 : {<<0, 0, 0>>}, t2 : {<<0, 0, 0>>}]

\* a bad magic, whole and cut short
MagicInputs ==
    [len : {0, 1, 2, 3, 4, 100, RawDataOffset},
     magic : {<<165, 165, 0, 1>>, <<165, 0, 0, 0>>, <<0, 165, 0, 0>>},
     roll_stop : {LE4(0)}, raw_ch1 : {LE4(0), LE4(4)}, raw_ch2 : {LE4(0)},
     ch1_en : {0}, ch2_en : {0}, la_en : {0},
     tmode : {0, 7}, t1 : {<<0, 0, 0>>}, t2 : {<<0, 0, 0>>}]

\* the values of the enabled flags
FlagInputs ==
    [len : {RawDataOffset + 12},
     magic : {Magic},
     roll_stop : {LE4(0)}, raw_ch1 : {LE4(5)}, raw_ch2 : {LE4(0)},
     ch1_en : {0, 1, 2, 255}, ch2_en : {0, 1, 2, 255}, la_en : {0, 1, 2, 3, 255},
     tmode : {0}, t1 : {<<0, 0, 0>>}, t2 : {<<0, 0, 0>>}]

\* in-range and out-of-range enum codes, whole and truncated headers
TriggerCodes ==
    {<<0, 0, 0>>, <<6, 5, 2>>, <<7, 5, 2>>, <<6, 6, 2>>, <<6, 5, 3>>}

EnumInputs ==
    [len : {144, 190, RawDataOffset},
     magic : {Magic},
     roll_stop : {LE4(0), AllOnes}, raw_ch1 : {LE4(0), LE4(4)},
     raw_ch2 : {LE4(0)},
     ch1_en : {0}, ch2_en : {0}, la_en : {0},
     tmode : {0, 6, 7, 255}, t1 : TriggerCodes, t2 : TriggerCodes]

\* point counts, rolling mode and enabled datasets, around the lengths the
\* datasets need
DataInputs ==
    [len : RawDataOffset..MaxLen,
     magic : {Magic},
     roll_stop : {LE4(n) : n \in 0..MaxRollStop},
     raw_ch1 : {LE4(n) : n \in {3} \cup ((MaxRawCh1 - 3)..MaxRawCh1)},
     raw_ch2 : {LE4(0), LE4(MaxRawCh2)},
     ch1_en : {0, 1}, ch2_en : {0, 1}, la_en : {0, 1},
     tmode : {4}, t1 : {<<0, 0, 0>>}, t2 : {<<6, 5, 2>>}]

Inputs ==
    TruncInputs \cup MagicInputs \cup FlagInputs \cup EnumInputs \cup DataInputs

(***************************************************************************)
(* State                                                                   *)
(*   call            the operation invoked: "parse" or "try_from"          *)
(*   overflow_checks whether the build panics on integer overflow          *)
(*   input           the buffer handed to parse                            *)
(*   pc              the next step of the call                             *)
(*   header, rest    the value and the remaining-input offset that         *)
(*                   waveform_header returned (rest = -1: none yet)        *)
(*   outcome         what parse returned, or that it panicked              *)
(*   conv            the argument and the result of a TryFrom<u8> call     *)
(***************************************************************************)
NoHeader == [none |-> TRUE]

NoData == [ch1 |-> << >>, ch2 |-> << >>, logic |-> << >>]

NoOutcome == [status |-> "none", stage |-> "", err |-> NoErr, data |-> NoData]

NoConv == [ty |-> "", raw |-> 0, ok |-> FALSE, val |-> ""]

Init ==
    /\ header = NoHeader
    /\ rest = -1
    /\ outcome = NoOutcome
    /\ \/ /\ call = "parse"
          /\ pc = "waveform_header"
          /\ overflow_checks \in BOOLEAN
          /\ \E p \in Inputs : input = MkInput(p)
          /\ conv = NoConv
       \/ /\ call = "try_from"
          /\ pc = "try_from"
          /\ overflow_checks = FALSE
          /\ input = << >>
          /\ \E ty \in EnumFamilies, raw \in 0..255 :
                conv = [ty |-> ty, raw |-> raw, ok |-> FALSE, val |-> ""]

\* parse, first statement: waveform_header(input), its error mapped
WaveformHeader ==
    /\ pc = "waveform_header"
    /\ LET r == waveform_header(input, overflow_checks)
       IN  IF r.res = "Ok"
               THEN /\ header' = r.val
                    /\ rest' = r.pos
                    /\ pc' = "raw_data"
                    /\ outcome' = outcome
               ELSE /\ header' = header
                    /\ rest' = rest
                    /\ pc' = "done"
                    /\ outcome' = [status |-> r.res, stage |-> "header",
                                   err |-> r.err, data |-> NoData]
    /\ UNCHANGED <<call, overflow_checks, input, conv>>

\* parse, second statement: raw_data(&input[276..], &header); slicing past
\* the end of the buffer panics
RawData ==
    /\ pc = "raw_data"
    /\ LET r == IF Len(input) < RawDataOffset
                    THEN Panic("range start index out of range for slice")
                    ELSE raw_data(SubSeq(input, RawDataOffset + 1, Len(input)),
                                  header)
       IN  outcome' = [status |-> r.res, stage |-> "raw data", err |-> r.err,
                       data |-> IF r.res = "Ok" THEN r.val ELSE NoData]
    /\ pc' = "done"
    /\ UNCHANGED <<call, overflow_checks, input, header, rest, conv>>

\* <T as TryFrom<u8>>::try_from(raw)
TryFrom ==
    /\ pc = "try_from"
    /\ LET r == try_from(conv.ty, conv.raw)
       IN  conv' = [conv EXCEPT !.ok = r.ok, !.val = r.val]
    /\ pc' = "done"
    /\ UNCHANGED <<call, overflow_checks, input, header, rest, outcome>>

Next == WaveformHeader \/ RawData \/ TryFrom

Spec == Init /\ [][Next]_vars

(***************************************************************************)
(* Properties.  They read the buffer at the fixed offsets of the layout    *)
(* and the results the calls left in the state.                            *)
(***************************************************************************)
OffRollStop == 20
OffRawCh1 == 28
OffCh1Enabled == 49
OffCh2Enabled == 73
OffLogicEnabled == 120
OffTriggerMode == 142
OffTrigger1 == 143
OffTrigger2 == 183
OffRawCh2 == 229

Byte(o) == input[o + 1]

U32At(o) == U32(Byte(o + 2) + 256 * Byte(o + 3), Byte(o) + 256 * Byte(o + 1))

ParseDone == call = "parse" /\ pc = "done"

HeaderDecoded == call = "parse" /\ rest # -1

\* x + y = z in the integers, for u32 x, y, z
ExactSum(x, y, z) == ~u32_add(x, y).overflow /\ u32_add(x, y).val = z

\* the derivation of ch1_points from the bytes of the buffer would be negative
RollingUnderflow ==
    /\ Len(input) >= OffRawCh1 + 4
    /\ IF U32At(OffRollStop) = U32Lit(0)
           THEN U32Lt(U32At(OffRawCh1), U32Lit(4))
           ELSE \/ u32_add(U32At(OffRollStop), U32Lit(6)).overflow
                \/ U32Lt(U32At(OffRawCh1),
                         u32_add(U32At(OffRollStop), U32Lit(6)).val)

MagicOk == Len(input) >= 4 /\ SubSeq(input, 1, 4) = <<165, 165, 0, 0>>

\* C1: a buffer shorter than the 276-byte header region makes parse return
\* a failure value: no success, no abort.
C1_ShortInputReturnsFailure ==
    (ParseDone /\ Len(input) < 276) => outcome.status = "Err"

\* C2: a successful header decode consumes exactly 276 bytes, the offset at
\* which parse starts the raw-sample extraction.
C2_HeaderEndsWhereRawDataStarts ==
    HeaderDecoded => (rest = 276 /\ rest = RawDataOffset)

\* C3: when the rolling-mode derivation would give a negative point count,
\* parse returns a failure value: no header with a wrapped count, no abort.
C3_NegativeCountReturnsFailure ==
    (ParseDone /\ MagicOk /\ RollingUnderflow) => outcome.status = "Err"

\* C4: in a decoded header ch1_points = raw - 4 and ch1_skip = 0 when
\* roll_stop = 0, else ch1_points = raw - roll_stop - 6 and
\* ch1_skip = roll_stop + 2 (in the integers); roll_stop is stored unchanged.
C4_RollingDerivationExact ==
    HeaderDecoded =>
        /\ header.roll_stop = U32At(OffRollStop)
        /\ IF U32At(OffRollStop) = U32Lit(0)
               THEN /\ ExactSum(header.ch1_points, U32Lit(4), U32At(OffRawCh1))
                    /\ header.ch1_skip = U32Lit(0)
               ELSE /\ ~u32_add(header.ch1_points, U32At(OffRollStop)).overflow
                    /\ ExactSum(u32_add(header.ch1_points, U32At(OffRollStop)).val,
                                U32Lit(6), U32At(OffRawCh1))
                    /\ ExactSum(U32At(OffRollStop), U32Lit(2), header.ch1_skip)

\* C5: in a decoded header ch2_points is the derived ch1_points exactly when
\* ch1 is enabled and the stored ch2 count is 0, and the stored ch2 count
\* verbatim in every other case.
C5_Ch2PointsInference ==
    HeaderDecoded =>
        /\ header.ch1.enabled = (Byte(OffCh1Enabled) # 0)
        /\ IF header.ch1.enabled /\ U32At(OffRawCh2) = U32Lit(0)
               THEN header.ch2_points = header.ch1_points
               ELSE header.ch2_points = U32At(OffRawCh2)

C5_Witness ==
    /\ HeaderDecoded
    /\ header.ch1.enabled
    /\ U32At(OffRawCh2) = U32Lit(0)
    /\ U32At(OffRollStop) # U32Lit(0)
    /\ header.ch2_points = header.ch1_points
    /\ header.ch1_points # U32Lit(0)
    /\ header.ch1_points # U32At(OffRawCh1)

\* the bytes a dataset of the given lengths takes, 0 when it is disabled
DatasetBytes(enabled, n) == IF enabled THEN n ELSE 0

\* C6: on success the containers are the segments of the raw-data region
\* taken by one forward cursor in the order channel 1, channel 2, logic; a
\* disabled dataset is empty and leaves the cursor where it is, and each
\* enabled analog channel is followed by ch1_skip + 4 skipped bytes.
C6_SampleSegments ==
    (ParseDone /\ outcome.status = "Ok") =>
        LET h    == header
            p1   == h.ch1_points.lo
            p2   == h.ch2_points.lo
            sk   == h.ch1_skip.lo
            cur1 == RawDataOffset
            cur2 == cur1 + DatasetBytes(h.ch1.enabled, p1 + sk + 4)
            cur3 == cur2 + DatasetBytes(h.ch2.enabled, p2 + sk + 4)
        IN  /\ h.ch1.enabled =>
                 (h.ch1_points.hi = 0 /\ h.ch1_skip.hi = 0)
            /\ h.ch2.enabled =>
                 (h.ch2_points.hi = 0 /\ h.ch1_skip.hi = 0)
            /\ h.logic.enabled => h.ch1_points.hi = 0
            /\ outcome.data.ch1 =
                 IF h.ch1.enabled
                     THEN [k \in 1..p1 |-> Byte(cur1 + k - 1)] ELSE << >>
            /\ outcome.data.ch2 =
                 IF h.ch2.enabled
                     THEN [k \in 1..p2 |-> Byte(cur2 + k - 1)] ELSE << >>
            /\ outcome.data.logic =
                 IF h.logic.enabled
                     THEN [k \in 1..p1 |-> Byte(cur3 + 2 * (k - 1))
                                           + 256 * Byte(cur3 + 2 * (k - 1) + 1)]
                     ELSE << >>
            /\ Len(outcome.data.ch1) \in {p1, 0}
            /\ Len(outcome.data.ch2) \in {p2, 0}
            /\ Len(outcome.data.logic) \in {p1, 0}
            /\ cur3 + DatasetBytes(h.logic.enabled, 2 * p1) <= Len(input)

C6_Witness ==
    /\ ParseDone
    /\ outcome.status = "Ok"
    /\ header.ch1.enabled /\ header.ch2.enabled /\ header.logic.enabled
    /\ header.ch1_skip # U32Lit(0)
    /\ Len(outcome.data.ch1) > 0
    /\ Len(outcome.data.ch2) > 0
    /\ Len(outcome.data.ch2) # Len(outcome.data.ch1)
    /\ Len(outcome.data.logic) > 0

\* the bytes of the raw-data region, and whether they are fewer than the
\* enabled datasets of the decoded header take
RawDataAvailable ==
    IF Len(input) > RawDataOffset THEN Len(input) - RawDataOffset ELSE 0

RawDataShort ==
    LET h == header
    IN  \/ h.ch1.enabled /\ (h.ch1_points.hi # 0 \/ h.ch1_skip.hi # 0)
        \/ h.ch2.enabled /\ (h.ch2_points.hi # 0 \/ h.ch1_skip.hi # 0)
        \/ h.logic.enabled /\ h.ch1_points.hi # 0
        \/ RawDataAvailable <
              DatasetBytes(h.ch1.enabled, h.ch1_points.lo + h.ch1_skip.lo + 4)
            + DatasetBytes(h.ch2.enabled, h.ch2_points.lo + h.ch1_skip.lo + 4)
            + DatasetBytes(h.logic.enabled, 2 * h.ch1_points.lo)

\* C7: once the header is decoded, a raw-data region shorter than what the
\* enabled datasets take makes parse return a failure value.
C7_ShortRawDataReturnsFailure ==
    (ParseDone /\ HeaderDecoded /\ RawDataShort) => outcome.status = "Err"

\* the maximum ordinal stated for each enum family
StatedMax ==
    [Bandwidth |-> 4, Coupling |-> 2, Filter |-> 3, Source |-> 5,
     TriggerMode |-> 6, Unit |-> 3]

\* an enum byte of the trigger section that is present and out of range
TriggerCodeOutOfRange(off) ==
    \/ Len(input) > off /\ Byte(off) > StatedMax["TriggerMode"]
    \/ Len(input) > off + 1 /\ Byte(off + 1) > StatedMax["Source"]
    \/ Len(input) > off + 2 /\ Byte(off + 2) > StatedMax["Coupling"]

SelectorOutOfRange ==
    Len(input) > OffTriggerMode /\ Byte(OffTriggerMode) > StatedMax["TriggerMode"]

\* C8: a byte converts to the variant of that ordinal when it is at most
\* the family's maximum and fails to convert above it; a parse of a buffer
\* with an out-of-range trigger-mode selector or trigger mode, source or
\* coupling byte does not succeed.
C8_EnumCodesChecked ==
    /\ (call = "try_from" /\ pc = "done") =>
          IF conv.raw <= StatedMax[conv.ty]
              THEN /\ conv.ok
                   /\ \E v \in EnumVariants[conv.ty] :
                         v.ord = conv.raw /\ v.name = conv.val
              ELSE ~conv.ok
    /\ (ParseDone /\ (\/ SelectorOutOfRange
                      \/ TriggerCodeOutOfRange(OffTrigger1)
                      \/ TriggerCodeOutOfRange(OffTrigger2))) =>
          outcome.status # "Ok"

C8_Witness ==
    /\ ParseDone
    /\ Len(input) >= RawDataOffset
    /\ Byte(OffTriggerMode) = StatedMax["TriggerMode"] + 1
    /\ ~TriggerCodeOutOfRange(OffTrigger1)
    /\ ~TriggerCodeOutOfRange(OffTrigger2)
    /\ outcome.status = "Err"
    /\ outcome.err.code = "MapOpt"

\* the defects of the buffer, each with the offset of its first byte: a
\* wrong magic, the end of a buffer that stops inside the 276-byte header
\* region, a negative rolling-mode point count, an out-of-range trigger-mode
\* selector and an out-of-range code in either trigger header block
MagicDefect ==
    \E k \in 1..4 : k <= Len(input) /\ input[k] # <<165, 165, 0, 0>>[k]

Defects ==
       {[what |-> "magic", off |-> 0] : x \in {1} \cap {IF MagicDefect THEN 1 ELSE 0}}
  \cup {[what |-> "truncated", off |-> Len(input)] :
            x \in {1} \cap {IF Len(input) < 276 THEN 1 ELSE 0}}
  \cup {[what |-> "underflow", off |-> OffRollStop] :
            x \in {1} \cap {IF RollingUnderflow THEN 1 ELSE 0}}
  \cup {[what |-> "selector", off |-> OffTriggerMode] :
            x \in {1} \cap {IF SelectorOutOfRange THEN 1 ELSE 0}}
  \cup {[what |-> "trigger1", off |-> OffTrigger1] :
            x \in {1} \cap {IF TriggerCodeOutOfRange(OffTrigger1) THEN 1 ELSE 0}}
  \cup {[what |-> "trigger2", off |-> OffTrigger2] :
            x \in {1} \cap {IF TriggerCodeOutOfRange(OffTrigger2) THEN 1 ELSE 0}}

FirstDefect == CHOOSE d \in Defects : \A e \in Defects : d.off <= e.off

\* the defect a returned header failure belongs to
ReportedDefect ==
    CASE outcome.status # "Err" \/ outcome.stage # "header" -> "none"
      [] outcome.err.kind = "Incomplete" -> "truncated"
      [] outcome.err.code = "Tag" -> "magic"
      [] outcome.err.code = "MapOpt" /\ outcome.err.at = 0 -> "selector"
      [] outcome.err.code = "MapOpt" /\ outcome.err.at = OffTrigger1 -> "trigger1"
      [] outcome.err.code = "MapOpt" /\ outcome.err.at = OffTrigger2 -> "trigger2"
      [] OTHER -> "other"

\* C9: the failure parse returns for a defective header is the one of the
\* defect at the lowest byte offset: an out-of-range trigger-mode selector
\* is reported before a defect of a trigger header block or a later
\* truncation, a negative rolling-mode count before any later defect.
C9_FirstDefectReported ==
    (ParseDone /\ Defects # {}) => ReportedDefect = FirstDefect.what

\* the bytes the enabled datasets take, from the bytes of the buffer
RawCh1Points ==
    IF U32At(OffRollStop) = U32Lit(0)
        THEN u32_sub(U32At(OffRawCh1), U32Lit(4)).val
        ELSE u32_sub(u32_sub(U32At(OffRawCh1), U32At(OffRollStop)).val,
                     U32Lit(6)).val

RawCh1Skip ==
    IF U32At(OffRollStop) = U32Lit(0)
        THEN U32Lit(0)
        ELSE u32_add(U32At(OffRollStop), U32Lit(2)).val

RawCh2Points ==
    IF Byte(OffCh1Enabled) # 0 /\ U32At(OffRawCh2) = U32Lit(0)
        THEN RawCh1Points
        ELSE U32At(OffRawCh2)

WellFormed ==
    /\ Len(input) >= 276
    /\ MagicOk
    /\ ~SelectorOutOfRange
    /\ ~TriggerCodeOutOfRange(OffTrigger1)
    /\ ~TriggerCodeOutOfRange(OffTrigger2)
    /\ ~RollingUnderflow
    /\ RawCh1Points.hi = 0 /\ RawCh1Skip.hi = 0 /\ RawCh2Points.hi = 0
    /\ Len(input) - 276 >=
            DatasetBytes(Byte(OffCh1Enabled) # 0,
                         RawCh1Points.lo + RawCh1Skip.lo + 4)
          + DatasetBytes(Byte(OffCh2Enabled) # 0,
                         RawCh2Points.lo + RawCh1Skip.lo + 4)
          + DatasetBytes(Byte(OffLogicEnabled) % 2 = 1, 2 * RawCh1Points.lo)

\* C10: a buffer with the right magic, in-range enum codes, a non-negative
\* derived ch1 count and enough bytes for the header and the enabled
\* datasets parses successfully, whatever roll_stop and the point counts.
C10_WellFormedSucceeds ==
    (ParseDone /\ WellFormed) => outcome.status = "Ok"

====
